---- MODULE Spec2Model ----
(***************************************************************************)
(* Model of qctrlopencontrols/qiskit/quantum_circuit.py:                   *)
(*   _get_circuit_gate_list, _get_rotations,                               *)
(*   convert_dds_to_quantum_circuit.                                       *)
(*                                                                         *)
(* Numbers.  Times and angles are floats in the source.  They are modelled *)
(* on a fixed-point grid whose unit is 1e-8 (seconds or radians), the      *)
(* default absolute tolerance of numpy.isclose, so that                    *)
(* np.isclose(a, 0.0)  <=>  |a| <= atol + rtol*|0.0|  <=>  |a| <= ATOL.    *)
(* cos and sin are tabulated on the phases used, rounded to the grid       *)
(* (cos(pi/2) = 6e-17 is 0 on the grid).                                   *)
(***************************************************************************)
EXTENDS Integers, Sequences, FiniteSets, TLC

\* ------------------------------------------------------------------ bounds
MaxPulses == 2
MaxOffset == 4

\* --------------------------------------------------------------- constants
ATOL == 1
PI == 314159265
HALF_PI == PI \div 2

FIX_DURATION_UNITARY == "Fixed duration unitary"
INSTANT_UNITARY == "Instant unitary"

\* ------------------------------------------------------------ float helpers
Abs(a) == IF a < 0 THEN -a ELSE a

\* np.isclose(a, 0.0) with numpy's default rtol, atol
IsCloseToZero(a) == Abs(a) <= ATOL

Cos(p) ==
  CASE p = 0 -> 1
    [] p = HALF_PI -> 0
    [] p = -HALF_PI -> 0
    [] p = PI -> -1
    [] p = -PI -> -1

Sin(p) ==
  CASE p = 0 -> 0
    [] p = HALF_PI -> 1
    [] p = -HALF_PI -> -1
    [] p = PI -> 0
    [] p = -PI -> 0

RECURSIVE Repeat(_, _)
Repeat(x, k) == IF k <= 0 THEN <<>> ELSE <<x>> \o Repeat(x, k - 1)

RECURSIVE SeqMax(_)
SeqMax(s) == IF Len(s) = 1 THEN s[1]
             ELSE LET m == SeqMax(Tail(s)) IN IF s[1] > m THEN s[1] ELSE m

\* ------------------------------------------------------------------- inputs
\* One pulse of a DynamicDecouplingSequence: (rabi, azimuthal, detuning).
Triples ==
  { <<0, 0, 0>>,          \* no rotation
    <<PI, 0, 0>>,         \* X
    <<PI, HALF_PI, 0>>,   \* Y
    <<0, 0, PI>>,         \* Z
    <<PI, 0, PI>>,        \* X and Z together
    <<0, HALF_PI, 0>>,    \* zero amplitude, non-zero phase
    <<PI, -PI, 0>>,       \* X rotation by -pi; the three entries sum to 0
    <<1, 0, 0>> }         \* amplitude within tolerance of 0

NonDecreasing(s) == \A i \in 1..(Len(s) - 1) : s[i] <= s[i + 1]

OffsetLists ==
  UNION { { s \in [1..n -> 0..MaxOffset] : NonDecreasing(s) } : n \in 1..MaxPulses }

Sequences ==
  UNION { { [offsets |-> o,
             rabi_rotations |-> [i \in 1..Len(o) |-> t[i][1]],
             azimuthal_angles |-> [i \in 1..Len(o) |-> t[i][2]],
             detuning_rotations |-> [i \in 1..Len(o) |-> t[i][3]]]
            : t \in [1..Len(o) -> Triples] } : o \in OffsetLists }

DefaultPrePost == <<HALF_PI, -HALF_PI, HALF_PI>>

\* The sequences used while the call parameters vary.
ScenarioA == [offsets |-> <<0>>, rabi_rotations |-> <<PI>>,
              azimuthal_angles |-> <<0>>, detuning_rotations |-> <<0>>]
ScenarioB == [offsets |-> <<3>>, rabi_rotations |-> <<0>>,
              azimuthal_angles |-> <<0>>, detuning_rotations |-> <<0>>]

\* sequence_kind: "None", "other" (not a DynamicDecouplingSequence), "dds".
\* quantum_registers: 0 stands for None, otherwise the register's length.
\* strict_index: the behaviour of the external register on a negative index
\* (TRUE: it raises, FALSE: it accepts the index).
SequenceArgs ==
  [ sequence_kind : {"dds"},
    dds : Sequences,
    target_given : {TRUE},
    target_qubits : {<<1, 0>>},
    gate_time : {1, 2},
    pre_post_given : {FALSE},
    pre_post_gate_parameters : {DefaultPrePost},
    add_measurement : {TRUE},
    algorithm : {FIX_DURATION_UNITARY, INSTANT_UNITARY},
    quantum_registers : {0},
    strict_index : {TRUE} ]

ParameterArgs ==
  [ sequence_kind : {"None", "other", "dds"},
    dds : {ScenarioA, ScenarioB},
    target_given : BOOLEAN,
    target_qubits : {<<0>>, <<0, 2>>, <<-1, 1>>, <<-1>>},
    gate_time : {0, 1},
    pre_post_given : {TRUE},
    pre_post_gate_parameters : {<<PI, 0, 0>>, <<PI, 0>>},
    add_measurement : BOOLEAN,
    algorithm : {FIX_DURATION_UNITARY, INSTANT_UNITARY, "other"},
    quantum_registers : {0, 2},
    strict_index : BOOLEAN ]

Args == SequenceArgs \cup ParameterArgs

\* -------------------------------------------------------------------- state
VARIABLES
  args,                 \* the call's arguments (never changed)
  pc,                   \* position in convert_dds_to_quantum_circuit
  err,                  \* the error raised, "none" while none
  target_qubits,        \* after defaulting
  pre_post_gate_parameters,
  quantum_registers,    \* length of the quantum register, 0 before allocation
  classical_registers,  \* length of the classical register, 0 for None
  unitary_time,
  time_covered,         \* _get_circuit_gate_list locals
  operation_idx,
  circuit_operations,
  circuit_gate_list,    \* the list returned to the caller
  gate_pos,             \* index of the next entry of circuit_gate_list
  offset_count,
  quantum_circuit       \* the operations appended so far

vars == <<args, pc, err, target_qubits, pre_post_gate_parameters,
          quantum_registers, classical_registers, unitary_time, time_covered,
          operation_idx, circuit_operations, circuit_gate_list, gate_pos,
          offset_count, quantum_circuit>>

builderVars == <<time_covered, operation_idx, circuit_operations, circuit_gate_list>>
walkVars == <<gate_pos, offset_count, quantum_circuit>>
setupVars == <<target_qubits, pre_post_gate_parameters, quantum_registers,
               classical_registers, unitary_time>>

Init ==
  /\ args \in Args
  /\ pc = "validate"
  /\ err = "none"
  /\ target_qubits = <<>>
  /\ pre_post_gate_parameters = <<>>
  /\ quantum_registers = 0
  /\ classical_registers = 0
  /\ unitary_time = 0
  /\ time_covered = 0
  /\ operation_idx = 0
  /\ circuit_operations = <<>>
  /\ circuit_gate_list = <<>>
  /\ gate_pos = 1
  /\ offset_count = 0
  /\ quantum_circuit = <<>>

dds == args.dds
NumPulses == Len(dds.offsets)

\* --------------------------------------------------------------- validation
BoolToInt(b) == IF b THEN 1 ELSE 0

\* np.any(target_qubits): some element is truthy (non-zero)
NpAny(qs) == \E i \in 1..Len(qs) : qs[i] # 0

\* line 232: np.any(target_qubits) < 0, a bool compared with 0
NegativeTargetCheck(qs) == BoolToInt(NpAny(qs)) < 0

EffectiveTargets == IF args.target_given THEN args.target_qubits ELSE <<0>>
EffectivePrePost ==
  IF args.pre_post_given THEN args.pre_post_gate_parameters ELSE DefaultPrePost

\* The error of lines 207-250, "none" when every check passes.
ValidationError ==
  IF args.sequence_kind = "None" THEN "InvalidSequenceError"
  ELSE IF args.sequence_kind # "dds" THEN "InvalidSequenceError"
  ELSE IF Len(EffectivePrePost) # 3 THEN "InvalidParameterError"
  ELSE IF args.gate_time <= 0 THEN "InvalidParameterError"
  ELSE IF NegativeTargetCheck(EffectiveTargets) THEN "InvalidParameterError"
  ELSE IF args.algorithm \notin {FIX_DURATION_UNITARY, INSTANT_UNITARY}
    THEN "InvalidParameterError"
  ELSE IF args.quantum_registers # 0
          /\ SeqMax(EffectiveTargets) + 1 > args.quantum_registers
    THEN "InvalidParameterError"
  ELSE IF args.quantum_registers = 0 /\ SeqMax(EffectiveTargets) + 1 <= 0
    THEN "QiskitError"        \* QuantumRegister(size) with size <= 0
  ELSE "none"

Validate ==
  /\ pc = "validate"
  /\ IF ValidationError # "none"
       THEN /\ pc' = "failed"
            /\ err' = ValidationError
            /\ UNCHANGED setupVars
       ELSE /\ pc' = "build"
            /\ err' = "none"
            /\ target_qubits' = EffectiveTargets
            /\ pre_post_gate_parameters' = EffectivePrePost
            /\ quantum_registers' =
                 IF args.quantum_registers # 0 THEN args.quantum_registers
                 ELSE SeqMax(EffectiveTargets) + 1
            /\ classical_registers' =
                 IF args.add_measurement THEN Len(EffectiveTargets) ELSE 0
            /\ unitary_time' =
                 IF args.algorithm = FIX_DURATION_UNITARY THEN args.gate_time ELSE 0
  /\ UNCHANGED <<args, builderVars, walkVars>>

\* --------------------------------------------------- _get_circuit_gate_list
\* variant: the distance is not snapped to zero
OffsetDistanceNoSnap(offset, covered) == offset - covered

\* lines 78-81
OffsetDistance(offset, covered) ==
  LET d == offset - covered IN IF IsCloseToZero(d) THEN 0 ELSE d

\* lines 93-97: the while loop, started with number_of_id_gates = k
RECURSIVE CountIdGates(_, _, _, _)
CountIdGates(covered, gate_time, offset, k) ==
  IF covered + (k + 1) * gate_time <= offset
    THEN CountIdGates(covered, gate_time, offset, k + 1)
    ELSE k

\* variant: the loop test written with < instead of <=
NumberOfIdGatesStrict(covered, gate_time, offset) ==
  CountIdGates(covered, gate_time, offset - 1, 0)

NumberOfIdGates(covered, gate_time, offset) ==
  CountIdGates(covered, gate_time, offset, 0)

\* line 88: np.isclose(np.sum(operations[:, operation_idx]), 0.0)
ZeroStrength(i) ==
  IsCloseToZero(dds.rabi_rotations[i] + dds.azimuthal_angles[i]
                + dds.detuning_rotations[i])

\* variant: gate_time used where unitary_time is meant
TimeCoveredAfterGateTime(i, distance) ==
  IF distance = 0 /\ ZeroStrength(i)
    THEN dds.offsets[i]
    ELSE dds.offsets[i] + args.gate_time

\* lines 86-91 and 98-99
TimeCoveredAfter(i, distance) ==
  IF distance = 0 /\ ZeroStrength(i)
    THEN dds.offsets[i]
    ELSE dds.offsets[i] + unitary_time

\* One iteration of the loop of line 76 (operation_idx counts the offsets
\* already processed; the offset processed here is operation_idx + 1).
BuildStep ==
  /\ pc = "build"
  /\ operation_idx < NumPulses
  /\ LET i == operation_idx + 1
         distance == OffsetDistance(dds.offsets[i], time_covered)
     IN IF distance < 0
          THEN /\ pc' = "failed"
               /\ err' = "UnrealizableOffsetError"
               /\ UNCHANGED <<time_covered, operation_idx, circuit_operations>>
          ELSE /\ circuit_operations' =
                    circuit_operations
                    \o (IF distance = 0 THEN <<>>
                        ELSE Repeat("id", NumberOfIdGates(time_covered, args.gate_time,
                                                          dds.offsets[i])))
                    \o <<"offset">>
               /\ time_covered' = TimeCoveredAfter(i, distance)
               /\ operation_idx' = i
               /\ UNCHANGED <<pc, err>>
  /\ UNCHANGED <<args, setupVars, circuit_gate_list, walkVars>>

\* line 101 and the assignment of line 266
BuildReturn ==
  /\ pc = "build"
  /\ operation_idx = NumPulses
  /\ circuit_gate_list' = circuit_operations
  /\ pc' = "pre"
  /\ UNCHANGED <<args, err, setupVars, time_covered, operation_idx,
                 circuit_operations, walkVars>>

\* ------------------------------------------------------------ circuit sink
\* An operation appended to the QuantumCircuit: its kind, its parameters and
\* the register positions it acts on.
U3Gate(theta, phi, lam, q) == [op |-> "u3", params |-> <<theta, phi, lam>>, qubits |-> <<q>>]
U1Gate(lam, q) == [op |-> "u1", params |-> <<lam>>, qubits |-> <<q>>]
IdGate(q) == [op |-> "id", params |-> <<>>, qubits |-> <<q>>]
Barrier(qs) == [op |-> "barrier", params |-> <<>>, qubits |-> qs]
Measure(q, c) == [op |-> "measure", params |-> <<c>>, qubits |-> <<q>>]

\* barrier(quantum_registers): every position of the register
WholeRegister == [i \in 1..quantum_registers |-> i - 1]

\* quantum_registers[qubit] of the external register: a negative index is
\* refused when the register is strict.  Position of the first target qubit
\* that cannot be indexed, Len + 1 when all can.
RECURSIVE FirstUnindexable(_, _)
FirstUnindexable(qs, i) ==
  IF i > Len(qs) THEN i
  ELSE IF args.strict_index /\ qs[i] < 0 THEN i
  ELSE FirstUnindexable(qs, i + 1)

\* ------------------------------------------------------------ _get_rotations
\* lines 121-127
GetRotations(operation) ==
  << operation[1] * Cos(operation[2]),
     operation[1] * Sin(operation[2]),
     operation[3] >>

\* lines 287-290 (offset_count is the 0-based pointer of the source)
InstanceOperation(count) ==
  << dds.rabi_rotations[count + 1],
     dds.azimuthal_angles[count + 1],
     dds.detuning_rotations[count + 1] >>

\* variant: the detuning rotation is left out of the count
NonzeroPulseCountsXY(rotations) ==
  Cardinality({ k \in 1..2 : ~IsCloseToZero(rotations[k]) })

\* lines 293-296
NonzeroPulseCounts(rotations) ==
  Cardinality({ k \in 1..3 : ~IsCloseToZero(rotations[k]) })

\* -------------------------------------------- convert_dds_to_quantum_circuit
\* lines 271-276 and 322-326: the gate of one qubit
CalibrationGate(q) ==
  U3Gate(pre_post_gate_parameters[1], pre_post_gate_parameters[2],
         pre_post_gate_parameters[3], q)

\* lines 271-276
RECURSIVE PreOps(_)
PreOps(qs) ==
  IF qs = <<>> THEN <<>>
  ELSE <<CalibrationGate(Head(qs)), Barrier(<<Head(qs)>>)>> \o PreOps(Tail(qs))

\* lines 282-284
RECURSIVE IdOps(_)
IdOps(qs) ==
  IF qs = <<>> THEN <<>>
  ELSE <<IdGate(Head(qs)), Barrier(<<Head(qs)>>)>> \o IdOps(Tail(qs))

\* variant: a pulse with no active axis gets no gate
SelectGateSkipZero(rotations, q) ==
  IF ~IsCloseToZero(rotations[1]) THEN <<U3Gate(rotations[1], -HALF_PI, HALF_PI, q)>>
  ELSE IF ~IsCloseToZero(rotations[2]) THEN <<U3Gate(rotations[2], 0, 0, q)>>
  ELSE IF ~IsCloseToZero(rotations[3]) THEN <<U1Gate(rotations[3], q)>>
  ELSE <<>>

\* lines 305-317: the gate appended for one qubit (none when no branch is taken)
SelectGate(rotations, q) ==
  IF NonzeroPulseCounts(rotations) = 0 THEN <<U3Gate(0, 0, 0, q)>>
  ELSE IF ~IsCloseToZero(rotations[1]) THEN <<U3Gate(rotations[1], -HALF_PI, HALF_PI, q)>>
  ELSE IF ~IsCloseToZero(rotations[2]) THEN <<U3Gate(rotations[2], 0, 0, q)>>
  ELSE IF ~IsCloseToZero(rotations[3]) THEN <<U1Gate(rotations[3], q)>>
  ELSE <<>>

\* lines 304-318
RECURSIVE PulseOps(_, _)
PulseOps(rotations, qs) ==
  IF qs = <<>> THEN <<>>
  ELSE SelectGate(rotations, Head(qs)) \o <<Barrier(<<Head(qs)>>)>>
       \o PulseOps(rotations, Tail(qs))

\* lines 322-327
RECURSIVE PostOps(_)
PostOps(qs) ==
  IF qs = <<>> THEN <<>>
  ELSE <<CalibrationGate(Head(qs)), Barrier(WholeRegister)>> \o PostOps(Tail(qs))

\* variant: the classical position is the qubit index
RECURSIVE MeasureOpsByQubit(_, _)
MeasureOpsByQubit(qs, q_index) ==
  IF qs = <<>> THEN <<>>
  ELSE <<Measure(Head(qs), Head(qs))>> \o MeasureOpsByQubit(Tail(qs), q_index + 1)

\* lines 329-332
RECURSIVE MeasureOps(_, _)
MeasureOps(qs, q_index) ==
  IF qs = <<>> THEN <<>>
  ELSE <<Measure(Head(qs), q_index)>> \o MeasureOps(Tail(qs), q_index + 1)

\* lines 271-278
PreStage ==
  /\ pc = "pre"
  /\ LET bad == FirstUnindexable(target_qubits, 1)
     IN /\ quantum_circuit' =
             quantum_circuit \o PreOps(SubSeq(target_qubits, 1, bad - 1))
        /\ IF bad <= Len(target_qubits)
             THEN pc' = "failed" /\ err' = "QiskitError"
             ELSE pc' = "walk" /\ err' = err
  /\ gate_pos' = 1
  /\ offset_count' = 0
  /\ UNCHANGED <<args, setupVars, builderVars>>

\* variant: the pulse pointer is advanced on 'id' entries too
WalkDelayAdvancing ==
  /\ pc = "walk"
  /\ gate_pos <= Len(circuit_gate_list)
  /\ circuit_gate_list[gate_pos] = "id"
  /\ quantum_circuit' = quantum_circuit \o IdOps(target_qubits)
  /\ gate_pos' = gate_pos + 1
  /\ offset_count' = offset_count + 1
  /\ UNCHANGED <<args, pc, err, setupVars, builderVars>>

\* lines 279-285: one 'id' entry of the list
WalkDelay ==
  /\ pc = "walk"
  /\ gate_pos <= Len(circuit_gate_list)
  /\ circuit_gate_list[gate_pos] = "id"
  /\ quantum_circuit' = quantum_circuit \o IdOps(target_qubits)
  /\ gate_pos' = gate_pos + 1
  /\ UNCHANGED <<args, pc, err, setupVars, builderVars, offset_count>>

\* variant: the axis count is tested after the gates of the slot are appended
WalkPulseEmitFirst ==
  /\ pc = "walk"
  /\ gate_pos <= Len(circuit_gate_list)
  /\ circuit_gate_list[gate_pos] # "id"
  /\ IF offset_count >= NumPulses
       THEN /\ pc' = "failed"
            /\ err' = "IndexError"
            /\ UNCHANGED walkVars
       ELSE LET rotations == GetRotations(InstanceOperation(offset_count))
            IN /\ quantum_circuit' =
                    quantum_circuit \o PulseOps(rotations, target_qubits)
               /\ IF NonzeroPulseCounts(rotations) > 1
                    THEN /\ pc' = "failed"
                         /\ err' = "MultiAxisRotationError"
                         /\ UNCHANGED <<gate_pos, offset_count>>
                    ELSE /\ offset_count' = offset_count + 1
                         /\ gate_pos' = gate_pos + 1
                         /\ UNCHANGED <<pc, err>>
  /\ UNCHANGED <<args, setupVars, builderVars>>

\* lines 287-320: one 'offset' entry of the list
WalkPulse ==
  /\ pc = "walk"
  /\ gate_pos <= Len(circuit_gate_list)
  /\ circuit_gate_list[gate_pos] # "id"
  /\ IF offset_count >= NumPulses
       THEN /\ pc' = "failed"
            /\ err' = "IndexError"
            /\ UNCHANGED walkVars
       ELSE LET rotations == GetRotations(InstanceOperation(offset_count))
            IN IF NonzeroPulseCounts(rotations) > 1
                 THEN /\ pc' = "failed"
                      /\ err' = "MultiAxisRotationError"
                      /\ UNCHANGED walkVars
                 ELSE /\ quantum_circuit' =
                           quantum_circuit \o PulseOps(rotations, target_qubits)
                      /\ offset_count' = offset_count + 1
                      /\ gate_pos' = gate_pos + 1
                      /\ UNCHANGED <<pc, err>>
  /\ UNCHANGED <<args, setupVars, builderVars>>

\* lines 322-327, entered when the loop of line 279 is exhausted
PostStage ==
  /\ pc = "walk"
  /\ gate_pos > Len(circuit_gate_list)
  /\ quantum_circuit' = quantum_circuit \o PostOps(target_qubits)
  /\ pc' = "measure"
  /\ UNCHANGED <<args, err, setupVars, builderVars, gate_pos, offset_count>>

\* lines 329-334
MeasureStage ==
  /\ pc = "measure"
  /\ quantum_circuit' =
       quantum_circuit
       \o (IF args.add_measurement THEN MeasureOps(target_qubits, 0) ELSE <<>>)
  /\ pc' = "done"
  /\ UNCHANGED <<args, err, setupVars, builderVars, gate_pos, offset_count>>

Next ==
  \/ Validate
  \/ BuildStep
  \/ BuildReturn
  \/ PreStage
  \/ WalkDelay
  \/ WalkPulse
  \/ PostStage
  \/ MeasureStage

Spec == Init /\ [][Next]_vars

\* =================================================================== claims
\* The Cartesian axes of pulse i (1-based) that are outside tolerance.
ActiveAxes(i) ==
  LET amplitude == dds.rabi_rotations[i]
      phase == dds.azimuthal_angles[i]
      x == amplitude * Cos(phase)
      y == amplitude * Sin(phase)
      z == dds.detuning_rotations[i]
      value == [a \in {"x", "y", "z"} |->
                  IF a = "x" THEN x ELSE IF a = "y" THEN y ELSE z]
  IN { a \in {"x", "y", "z"} : Abs(value[a]) > ATOL }

HasNegativeTarget == \E i \in 1..Len(EffectiveTargets) : EffectiveTargets[i] < 0

\* The builder is about to process offset operation_idx + 1.
AtOffset == pc = "build" /\ operation_idx < NumPulses

\* The assembler is about to decode the pulse-slot at gate_pos.
AtPulseSlot ==
  /\ pc = "walk"
  /\ gate_pos <= Len(circuit_gate_list)
  /\ circuit_gate_list[gate_pos] = "offset"

\* ----------------------------------------------------------------------- C1
\* C1 (as stated): whenever the conversion fails with an invalid-sequence,
\* invalid-parameter, unrealizable-offset or multi-axis error, no operation
\* has been appended to the circuit.
C1_NoGateBeforeAnyError ==
  err \in {"InvalidSequenceError", "InvalidParameterError",
           "UnrealizableOffsetError", "MultiAxisRotationError"}
    => quantum_circuit = <<>>

\* C1 (amended): an invalid-sequence, invalid-parameter or unrealizable-offset
\* error is raised before any operation is appended; a multi-axis error is
\* raised during the walk, when the pre-calibration gate and barrier of every
\* target qubit and the gate and barrier of every list entry before the
\* offending pulse-slot have been appended, and the conversion ends without
\* returning that circuit.
C1_EarlyErrorsBeforeGates ==
  /\ err \in {"InvalidSequenceError", "InvalidParameterError",
              "UnrealizableOffsetError"}
       => quantum_circuit = <<>> /\ pc = "failed"
  /\ err = "MultiAxisRotationError"
       => /\ pc = "failed"
          /\ circuit_gate_list[gate_pos] = "offset"
          /\ Len(quantum_circuit) = 2 * Len(target_qubits) * gate_pos
          /\ \A j \in 1..Len(quantum_circuit) :
               IF j % 2 = 0 THEN quantum_circuit[j].op = "barrier"
               ELSE IF j <= 2 * Len(target_qubits)
                 THEN /\ quantum_circuit[j].op = "u3"
                      /\ quantum_circuit[j].params = pre_post_gate_parameters
               ELSE IF circuit_gate_list[((j - 1) \div (2 * Len(target_qubits)))] = "id"
                 THEN quantum_circuit[j].op = "id"
               ELSE quantum_circuit[j].op \in {"u3", "u1"}

C1_Witness ==
  /\ err = "MultiAxisRotationError"
  /\ gate_pos = 3
  /\ quantum_circuit # <<>>

\* ----------------------------------------------------------------------- C2
\* C2: a target_qubits list with a negative index never gets past validation
\* (the call fails with the invalid-parameter error, or with the
\* invalid-sequence error of an earlier check), and a circuit is built only
\* when every index is non-negative.
C2_NegativeTargetRejected ==
  /\ (HasNegativeTarget /\ pc # "validate")
       => err \in {"InvalidSequenceError", "InvalidParameterError"}
  /\ pc = "done" => ~HasNegativeTarget

\* ----------------------------------------------------------------------- C3
\* C3: when the assembler decodes a pulse triple, it raises the multi-axis
\* error (and returns no circuit) if more than one of x, y, z is outside
\* tolerance, and raises no error for that pulse otherwise.
C3_MultiAxisRejected ==
  /\ [][(AtPulseSlot /\ offset_count < NumPulses)
          => IF Cardinality(ActiveAxes(offset_count + 1)) > 1
               THEN err' = "MultiAxisRotationError" /\ pc' = "failed"
               ELSE err' = "none" /\ pc' = "walk"]_vars
  /\ [](err = "MultiAxisRotationError" => pc # "done")
  /\ [](pc = "done" => \A i \in 1..NumPulses : Cardinality(ActiveAxes(i)) <= 1)

C3_Witness ==
  /\ err = "MultiAxisRotationError"
  /\ offset_count = 1
  /\ ActiveAxes(1) = {"x"}
  /\ ActiveAxes(2) = {"x", "z"}

C5_NegativeDistanceDetected ==
  /\ [][AtOffset
          => IF dds.offsets[operation_idx + 1] < time_covered - ATOL
               THEN /\ err' = "UnrealizableOffsetError"
                    /\ pc' = "failed"
                    /\ operation_idx' = operation_idx
                    /\ circuit_gate_list' = <<>>
               ELSE /\ err' = "none"
                    /\ operation_idx' = operation_idx + 1]_vars
  /\ [][err # "UnrealizableOffsetError"]_vars
  /\ [](err = "UnrealizableOffsetError"
          => /\ circuit_gate_list = <<>>
             /\ dds.offsets[operation_idx + 1] < time_covered - ATOL)

C5_Witness ==
  /\ err = "UnrealizableOffsetError"
  /\ operation_idx = 1
  /\ circuit_gate_list = <<>>

\* ----------------------------------------------------------------------- C6
\* C6: a completed conversion has appended, in this order: per target qubit a
\* pre-calibration gate and a barrier; per list entry and target qubit a
\* delay or pulse gate and a barrier; per target qubit a post-calibration
\* gate with the pre-calibration parameters and a barrier; and, iff
\* add_measurement, one measurement per target qubit, the i-th target qubit
\* into classical position i.
C6_StageOrder ==
  pc = "done" =>
    LET m == Len(target_qubits)
        l == Len(circuit_gate_list)
        body == 2 * m
        post == 2 * m * (l + 1)
        meas == 2 * m * (l + 2)
        qubitAt(j) == target_qubits[(((j - 1) % (2 * m)) \div 2) + 1]
        entryAt(j) == circuit_gate_list[((j - body - 1) \div (2 * m)) + 1]
        c == quantum_circuit
    IN /\ Len(c) = meas + (IF args.add_measurement THEN m ELSE 0)
       /\ \A j \in 1..meas :
            IF j % 2 = 0 THEN c[j].op = "barrier"
            ELSE /\ c[j].qubits = <<qubitAt(j)>>
                 /\ IF j <= body \/ j > post
                      THEN c[j].op = "u3" /\ c[j].params = pre_post_gate_parameters
                    ELSE IF entryAt(j) = "id" THEN c[j].op = "id"
                    ELSE c[j].op \in {"u3", "u1"}
       /\ \A i \in 1..(Len(c) - meas) :
            c[meas + i] = [op |-> "measure", params |-> <<i - 1>>,
                           qubits |-> <<target_qubits[i]>>]

C6_Witness ==
  /\ pc = "done"
  /\ args.add_measurement
  /\ target_qubits = <<1, 0>>
  /\ circuit_gate_list = <<"offset", "id", "offset">>

\* ----------------------------------------------------------------------- C7
\* C7: a returned gate list holds exactly one 'offset' entry per pulse, the
\* rest being 'id' entries; during the walk offset_count moves only on
\* 'offset' entries, by one, is within 0..n-1 whenever a triple is read,
\* equals the number of 'offset' entries already walked, and is n when the
\* walk has ended.
C7_PulsePointer ==
  /\ [](pc \in {"pre", "walk", "measure", "done"}
          => /\ Cardinality({ j \in 1..Len(circuit_gate_list) :
                                circuit_gate_list[j] = "offset" }) = NumPulses
             /\ Len(circuit_gate_list) =
                  NumPulses + Cardinality({ j \in 1..Len(circuit_gate_list) :
                                              circuit_gate_list[j] = "id" }))
  /\ [](pc = "walk"
          => /\ offset_count =
                  Cardinality({ j \in 1..(gate_pos - 1) : circuit_gate_list[j] = "offset" })
             /\ AtPulseSlot => offset_count \in 0..(NumPulses - 1))
  /\ [][offset_count' # offset_count
          => AtPulseSlot /\ offset_count' = offset_count + 1]_vars
  /\ [](pc \in {"measure", "done"} => offset_count = NumPulses)

C7_Witness ==
  /\ pc = "done"
  /\ offset_count = 2
  /\ Len(circuit_gate_list) = 4

\* ----------------------------------------------------------------------- C8
\* C8: for a pulse-slot whose triple has at most one active axis, each target
\* qubit gets exactly one gate (followed by its barrier): u3(0,0,0) when no
\* axis is active, u3(x,-pi/2,pi/2) for x, u3(y,0,0) for y, u1(z) for z.
C8_GatePerAxis ==
  [][(AtPulseSlot /\ offset_count < NumPulses
        /\ Cardinality(ActiveAxes(offset_count + 1)) <= 1)
       => LET i == offset_count + 1
              m == Len(target_qubits)
              old == Len(quantum_circuit)
              added(j) == quantum_circuit'[old + j]
              gate(q) ==
                IF ActiveAxes(i) = {}
                  THEN [op |-> "u3", params |-> <<0, 0, 0>>, qubits |-> <<q>>]
                ELSE IF ActiveAxes(i) = {"x"}
                  THEN [op |-> "u3",
                        params |-> <<dds.rabi_rotations[i] * Cos(dds.azimuthal_angles[i]),
                                     -HALF_PI, HALF_PI>>,
                        qubits |-> <<q>>]
                ELSE IF ActiveAxes(i) = {"y"}
                  THEN [op |-> "u3",
                        params |-> <<dds.rabi_rotations[i] * Sin(dds.azimuthal_angles[i]),
                                     0, 0>>,
                        qubits |-> <<q>>]
                ELSE [op |-> "u1", params |-> <<dds.detuning_rotations[i]>>,
                      qubits |-> <<q>>]
          IN /\ Len(quantum_circuit') = old + 2 * m
             /\ SubSeq(quantum_circuit', 1, old) = quantum_circuit
             /\ \A k \in 1..m :
                  /\ added(2 * k - 1) = gate(target_qubits[k])
                  /\ added(2 * k).op = "barrier"]_vars

\* a completed circuit with a Z pulse followed by a zero-rotation pulse
C8_Witness ==
  /\ pc = "done"
  /\ NumPulses = 2
  /\ ActiveAxes(1) = {"z"}
  /\ ActiveAxes(2) = {}
  /\ \E j \in 1..Len(quantum_circuit) : quantum_circuit[j].op = "u1"

\* ----------------------------------------------------------------------- C9
\* C9: for a pulse at zero distance (within tolerance), time_covered is left
\* at o_i iff the pulse has no active x, y or z axis, and becomes
\* o_i + unitary_time otherwise; at positive distance it always becomes
\* o_i + unitary_time.
C9_ZeroStrengthIsNoActiveAxis ==
  [][(AtOffset /\ dds.offsets[operation_idx + 1] - time_covered >= -ATOL)
       => LET i == operation_idx + 1
              zeroDistance == Abs(dds.offsets[i] - time_covered) <= ATOL
          IN time_covered' =
               (IF zeroDistance /\ ActiveAxes(i) = {}
                  THEN dds.offsets[i]
                  ELSE dds.offsets[i] + unitary_time)]_vars

\* ---------------------------------------------------------------------- C10
\* C10: under the instant algorithm the builder never raises the
\* unrealizable-offset error and time_covered equals the last processed
\* offset; under fixed duration time_covered lies between the last processed
\* offset and that offset plus gate_time, and the error is raised only at an
\* offset less than gate_time after a pulse that consumed a gate-time unit.
C10_TimeCoveredBounds ==
  /\ args.algorithm = INSTANT_UNITARY
       => /\ err # "UnrealizableOffsetError"
          /\ operation_idx >= 1 => time_covered = dds.offsets[operation_idx]
  /\ (args.algorithm = FIX_DURATION_UNITARY /\ operation_idx >= 1)
       => /\ dds.offsets[operation_idx] <= time_covered
          /\ time_covered <= dds.offsets[operation_idx] + args.gate_time
  /\ err = "UnrealizableOffsetError"
       => /\ args.algorithm = FIX_DURATION_UNITARY
          /\ operation_idx >= 1
          /\ time_covered = dds.offsets[operation_idx] + args.gate_time
          /\ dds.offsets[operation_idx + 1] - dds.offsets[operation_idx] < args.gate_time

C10_Witness ==
  /\ args.algorithm = INSTANT_UNITARY
  /\ pc = "done"
  /\ operation_idx = 2
  /\ dds.offsets = <<3, 3>>
  /\ time_covered = 3
====
